---------------------------- MODULE Spec2Model ----------------------------
(***************************************************************************)
(* Hindley-Milner inference core of atiny: holes (shared mutable cells),   *)
(* unification with its overlap check, substitution, instantiation and     *)
(* generalization, and the inference rules for expressions, patterns and   *)
(* type expressions.  Source positions and the rendering of types inside   *)
(* error messages are left out: an error is the fixed part of its message. *)
(*                                                                         *)
(* A hole cell lives in `heap`; its index is the cell's identity           *)
(* (Ref::identifier, the address of the RefItem).  Every function of the   *)
(* source that reads or writes a cell takes the heap and returns it.       *)
(***************************************************************************)
EXTENDS Integers, Sequences, FiniteSets, TLC

VARIABLES heap, counter, last, ops

vars == <<heap, counter, last, ops>>

(***************************** bounds ***************************************)
\* cells a run may allocate
MaxHoles == 2
\* operations of one run
MaxOps == 2
\* call depth after which a recursion that has not returned is taken to
\* never return (the process dies of stack exhaustion)
MaxDepth == 12

HoleNames == {"a", "b"}
Levels == {0, 1}

(***************************** MonoType *************************************)
Var(name) == <<"Var", name>>
Tuple(vec) == <<"Tuple", vec>>
Arrow(from, to) == <<"Arrow", from, to>>
HoleT(ref) == <<"Hole", ref>>
ErrorT == <<"Error">>

Empty(level) == <<"Empty", level>>
Filled(typ) == <<"Filled", typ>>

\* RefItem::new / Ref::new: a cell with a display name, Empty at `level`
RefItem(name, level) == [name |-> name, data |-> Empty(level)]

\* Ref::get
get(h, ref) == h[ref].data
is_empty(h, ref) == h[ref].data[1] = "Empty"
is_filled(h, ref) == h[ref].data[1] = "Filled"

\* Ref::fill: overwrite the cell's data, whatever it held
fill(h, ref, typ) == [h EXCEPT ![ref].data = Filled(typ)]

(***************************** unification **********************************)
Ok == "Ok"
CantUnify == "CantUnify"
Cyclic == "Cyclic"
Overflow == "stack overflow"
Mismatch == "type mismatch between"
CyclicMsg == "found cyclic type of infinite size"

RECURSIVE check_hole_overlap(_, _, _)
RECURSIVE overlap_each(_, _, _, _)

\* the Tuple arm's loop: the first failing element ends it, and both
\* failures are reported as Cyclic
overlap_each(h, hole, vec, i) ==
    IF i > Len(vec) THEN Ok
    ELSE IF check_hole_overlap(h, hole, vec[i]) # Ok THEN Cyclic
    ELSE overlap_each(h, hole, vec, i + 1)

\* compares display names; walks tuples and arrows; does not look inside
\* Filled holes.  MonoType::Error has no arm in the source: it is taken to
\* fall through to the final Ok(()) like Var.
check_hole_overlap(h, hole, other) ==
    IF other[1] = "Hole"
    THEN IF h[hole].name = h[other[2]].name THEN CantUnify ELSE Ok
    ELSE IF other[1] = "Tuple" THEN overlap_each(h, hole, other[2], 1)
    ELSE IF other[1] = "Arrow"
    THEN LET l == check_hole_overlap(h, hole, other[2])
         IN IF l # Ok THEN l ELSE check_hole_overlap(h, hole, other[3])
    ELSE Ok

RECURSIVE unify(_, _, _, _)
RECURSIVE unify_hole(_, _, _, _, _)
RECURSIVE unify_each(_, _, _, _, _)

\* the Tuple arm's zip loop, ended by the first error
unify_each(h, vec_l, vec_r, i, fuel) ==
    IF i > Len(vec_l) THEN [heap |-> h, res |-> Ok]
    ELSE LET r == unify(h, vec_l[i], vec_r[i], fuel)
         IN IF r.res # Ok THEN r ELSE unify_each(r.heap, vec_l, vec_r, i + 1, fuel)

\* unify_hole filling the cell without looking at what it holds
unify_hole_refill(h, hole, other, swap, fuel) ==
    LET c == check_hole_overlap(h, hole, other)
    IN IF c = CantUnify THEN [heap |-> h, res |-> Ok]
       ELSE IF c = Cyclic THEN [heap |-> h, res |-> CyclicMsg]
       ELSE [heap |-> fill(h, hole, other), res |-> Ok]

unify_hole(h, hole, other, swap, fuel) ==
    LET c == check_hole_overlap(h, hole, other)
    IN IF c = CantUnify THEN [heap |-> h, res |-> Ok]
       ELSE IF c = Cyclic THEN [heap |-> h, res |-> CyclicMsg]
       ELSE IF is_empty(h, hole) THEN [heap |-> fill(h, hole, other), res |-> Ok]
       ELSE IF swap THEN unify(h, other, get(h, hole)[2], fuel)
       ELSE unify(h, get(h, hole)[2], other, fuel)

unify(h, left, right, fuel) ==
    IF fuel = 0 THEN [heap |-> h, res |-> Overflow]
    ELSE IF left[1] = "Var" /\ right[1] = "Var" /\ left[2] = right[2]
    THEN [heap |-> h, res |-> Ok]
    ELSE IF left[1] = "Arrow" /\ right[1] = "Arrow"
    THEN LET r == unify(h, left[2], right[2], fuel - 1)
         IN IF r.res # Ok THEN r ELSE unify(r.heap, left[3], right[3], fuel - 1)
    ELSE IF left[1] = "Hole" THEN unify_hole(h, left[2], right, FALSE, fuel - 1)
    ELSE IF right[1] = "Hole" THEN unify_hole(h, right[2], left, TRUE, fuel - 1)
    ELSE IF left[1] = "Tuple" /\ right[1] = "Tuple" /\ Len(left[2]) = Len(right[2])
    THEN unify_each(h, left[2], right[2], 1, fuel - 1)
    ELSE [heap |-> h, res |-> Mismatch]

(***************************** reading a type *******************************)
RECURSIVE HolesIn(_)
\* the cells a type mentions directly (not through a Filled cell)
HolesIn(t) ==
    IF t[1] = "Hole" THEN {t[2]}
    ELSE IF t[1] = "Tuple" THEN UNION {HolesIn(t[2][i]) : i \in DOMAIN t[2]}
    ELSE IF t[1] = "Arrow" THEN HolesIn(t[2]) \cup HolesIn(t[3])
    ELSE {}

Payload(h, i) == IF is_filled(h, i) THEN HolesIn(get(h, i)[2]) ELSE {}

RECURSIVE Close(_, _, _)
Close(h, S, n) ==
    LET T == S \cup UNION {Payload(h, i) : i \in S}
    IN IF n = 0 \/ T = S THEN S ELSE Close(h, T, n - 1)

\* every cell met when walking t through tuples, arrows and Filled cells
Reach(h, t) == Close(h, HolesIn(t), Len(h))

\* the cells met when walking the payload of cell i
Below(h, i) == Close(h, Payload(h, i), Len(h))

Acyclic(h) == \A i \in DOMAIN h : i \notin Below(h, i)

RECURSIVE HasError(_, _)
\* Error occurs in t, read through Filled cells (used on acyclic heaps)
HasError(h, t) ==
    IF t[1] = "Error" THEN TRUE
    ELSE IF t[1] = "Tuple" THEN \E i \in DOMAIN t[2] : HasError(h, t[2][i])
    ELSE IF t[1] = "Arrow" THEN HasError(h, t[2]) \/ HasError(h, t[3])
    ELSE IF t[1] = "Hole" /\ is_filled(h, t[2]) THEN HasError(h, get(h, t[2])[2])
    ELSE FALSE

RECURSIVE Resolve(_, _)
\* t with every Filled cell replaced by its payload (used on acyclic heaps)
Resolve(h, t) ==
    IF t[1] = "Tuple" THEN Tuple([i \in DOMAIN t[2] |-> Resolve(h, t[2][i])])
    ELSE IF t[1] = "Arrow" THEN Arrow(Resolve(h, t[2]), Resolve(h, t[3]))
    ELSE IF t[1] = "Hole" /\ is_filled(h, t[2]) THEN Resolve(h, get(h, t[2])[2])
    ELSE t

(***************************** Ctx ******************************************)
\* Ctx::new_name: the counter's next unique name
new_name(c) == "t" \o ToString(c)

(***************************** substitution *********************************)
Diverged == <<"Diverged">>

RECURSIVE substitute(_, _, _, _)
substitute(h, t, substs, fuel) ==
    IF fuel = 0 THEN Diverged
    ELSE IF t[1] = "Var"
    THEN IF t[2] \in DOMAIN substs THEN substs[t[2]] ELSE Var(t[2])
    ELSE IF t[1] = "Tuple"
    THEN LET vec == [i \in DOMAIN t[2] |-> substitute(h, t[2][i], substs, fuel - 1)]
         IN IF \E i \in DOMAIN vec : vec[i] = Diverged THEN Diverged ELSE Tuple(vec)
    ELSE IF t[1] = "Arrow"
    THEN LET from == substitute(h, t[2], substs, fuel - 1)
             to == substitute(h, t[3], substs, fuel - 1)
         IN IF from = Diverged \/ to = Diverged THEN Diverged ELSE Arrow(from, to)
    ELSE IF t[1] = "Hole"
    THEN IF is_filled(h, t[2]) THEN substitute(h, get(h, t[2])[2], substs, fuel - 1)
         ELSE HoleT(t[2])
    ELSE ErrorT

(***************************** schemes **************************************)
TypeScheme(names, mono) == [names |-> names, mono |-> mono]

\* MonoType::to_poly
to_poly(t) == TypeScheme(<<>>, t)

\* MonoType::new_hole: a new cell at the end of the heap
new_hole(h, name, level) == Append(h, RefItem(name, level))

RECURSIVE instantiate_holes(_, _, _, _, _)
\* the map over scheme.names: one new cell per name, named by the counter;
\* collected into a map, a later entry of the same name replacing an earlier
instantiate_holes(h, c, names, level, i) ==
    IF i > Len(names) THEN [heap |-> h, counter |-> c, substs |-> <<>>]
    ELSE LET h1 == new_hole(h, new_name(c), level)
             r == instantiate_holes(h1, c + 1, names, level, i + 1)
         IN [r EXCEPT !.substs =
                IF names[i] \in DOMAIN r.substs THEN r.substs
                ELSE (names[i] :> HoleT(Len(h1))) @@ r.substs]

\* TypeScheme::instantiate
instantiate(h, c, scheme, level) ==
    LET s == instantiate_holes(h, c, scheme.names, level, 1)
    IN [heap |-> s.heap, counter |-> s.counter,
        out |-> substitute(s.heap, scheme.mono, s.substs, MaxDepth)]

RECURSIVE generalize_type(_, _, _, _, _, _)
RECURSIVE generalize_each(_, _, _, _, _, _, _)

\* the Tuple arm's map, in order, sharing `holes` and the counter
generalize_each(h, vec, i, level, holes, c, fuel) ==
    IF i > Len(vec) THEN [out |-> <<>>, holes |-> holes, counter |-> c]
    ELSE LET g == generalize_type(h, vec[i], level, holes, c, fuel)
             r == generalize_each(h, vec, i + 1, level, g.holes, g.counter, fuel)
         IN IF g.out = Diverged \/ r.out = Diverged
            THEN [out |-> Diverged, holes |-> holes, counter |-> c]
            ELSE [r EXCEPT !.out = <<g.out>> \o r.out]

\* generalize_type naming a hole anew at each place it stands
generalize_type_unshared(h, t, level, holes, c, fuel) ==
    IF fuel = 0 THEN [out |-> Diverged, holes |-> holes, counter |-> c]
    ELSE IF t[1] = "Tuple"
    THEN LET r == generalize_each(h, t[2], 1, level, holes, c, fuel - 1)
         IN IF r.out = Diverged THEN r ELSE [r EXCEPT !.out = Tuple(r.out)]
    ELSE IF t[1] = "Arrow"
    THEN LET from == generalize_type(h, t[2], level, holes, c, fuel - 1)
             to == generalize_type(h, t[3], level, from.holes, from.counter, fuel - 1)
         IN IF from.out = Diverged THEN from
            ELSE IF to.out = Diverged THEN to
            ELSE [to EXCEPT !.out = Arrow(from.out, to.out)]
    ELSE IF t[1] = "Hole"
    THEN IF is_filled(h, t[2])
         THEN generalize_type(h, get(h, t[2])[2], level, holes, c, fuel - 1)
         ELSE IF get(h, t[2])[2] > level
         THEN [out |-> Var(new_name(c)),
               holes |-> (c + 1 :> new_name(c)) @@ holes, counter |-> c + 1]
         ELSE [out |-> HoleT(t[2]), holes |-> holes, counter |-> c]
    ELSE [out |-> t, holes |-> holes, counter |-> c]

generalize_type(h, t, level, holes, c, fuel) ==
    IF fuel = 0 THEN [out |-> Diverged, holes |-> holes, counter |-> c]
    ELSE IF t[1] = "Tuple"
    THEN LET r == generalize_each(h, t[2], 1, level, holes, c, fuel - 1)
         IN IF r.out = Diverged THEN r ELSE [r EXCEPT !.out = Tuple(r.out)]
    ELSE IF t[1] = "Arrow"
    THEN LET from == generalize_type(h, t[2], level, holes, c, fuel - 1)
             to == generalize_type(h, t[3], level, from.holes, from.counter, fuel - 1)
         IN IF from.out = Diverged THEN from
            ELSE IF to.out = Diverged THEN to
            ELSE [to EXCEPT !.out = Arrow(from.out, to.out)]
    ELSE IF t[1] = "Hole"
    THEN IF is_filled(h, t[2])
         THEN generalize_type(h, get(h, t[2])[2], level, holes, c, fuel - 1)
         ELSE IF get(h, t[2])[2] > level
         THEN IF t[2] \in DOMAIN holes
              THEN [out |-> Var(holes[t[2]]), holes |-> holes, counter |-> c]
              ELSE [out |-> Var(new_name(c)),
                    holes |-> (t[2] :> new_name(c)) @@ holes, counter |-> c + 1]
         ELSE [out |-> HoleT(t[2]), holes |-> holes, counter |-> c]
    ELSE [out |-> t, holes |-> holes, counter |-> c]

RECURSIVE into_values(_, _)
\* BTreeMap::into_values: the names in the order of their cells
into_values(holes, i) ==
    IF \A k \in DOMAIN holes : k < i THEN <<>>
    ELSE IF i \in DOMAIN holes THEN <<holes[i]>> \o into_values(holes, i + 1)
    ELSE into_values(holes, i + 1)

\* MonoType::generalize
generalize(h, c, t, level) ==
    LET g == generalize_type(h, t, level, <<>>, c, MaxDepth)
    IN [counter |-> g.counter, out |-> TypeScheme(into_values(g.holes, 1), g.out)]

(***************************** Ctx::extend, lookup, new_hole ****************)
\* Ctx::extend: the binding added, shadowing an older one of the same name
extend(ctx, name, scheme) == [ctx EXCEPT !.env = (name :> scheme) @@ ctx.env]

\* Ctx::extend_types: the type-variable names added to typ_map
extend_types(ctx, names) ==
    [ctx EXCEPT !.typ_map = ctx.typ_map \cup {names[k] : k \in DOMAIN names}]

\* Ctx::new_hole: MonoType::new_hole(new_name(), level)
ctx_new_hole(h, c, ctx) ==
    [heap |-> new_hole(h, new_name(c), ctx.level), counter |-> c + 1, out |-> HoleT(Len(h) + 1)]

\* the context the suite infers in: level 0, add and to_string bound
default_context ==
    [level |-> 0,
     typ_map |-> {"Int", "Bool", "String", "()"},
     env |-> ("add" :> to_poly(Arrow(Var("Int"), Arrow(Var("Int"), Var("Int")))))
             @@ ("to_string" :> to_poly(Arrow(Var("Int"), Var("String"))))]

(***************************** inference ************************************)
Unbound == "unbound variable"
UnboundType == "unbound type variable"
BoundTwice == "bound more than once"
Todo == "not yet implemented"

R(res, out, h, c) == [res |-> res, out |-> out, heap |-> h, counter |-> c]

RECURSIVE PatternInfer(_, _, _, _, _)
RECURSIVE PatternInferEach(_, _, _, _, _, _, _)

\* the Tuple arm's loop: context, binder set and types threaded left to right
PatternInferEach(vec, i, ctx, set, h, c, res) ==
    IF i > Len(vec)
    THEN [res |-> Ok, out |-> Tuple(res), ctx |-> ctx, set |-> set, heap |-> h, counter |-> c]
    ELSE LET r == PatternInfer(vec[i], ctx, set, h, c)
         IN IF r.res # Ok THEN r
            ELSE PatternInferEach(vec, i + 1, r.ctx, r.set, r.heap, r.counter, Append(res, r.out))

\* Pattern::infer((ctx, set))
PatternInfer(p, ctx, set, h, c) ==
    IF p[1] = "Unit"
    THEN [res |-> Ok, out |-> Var("()"), ctx |-> ctx, set |-> set, heap |-> h, counter |-> c]
    ELSE IF p[1] = "Number"
    THEN [res |-> Ok, out |-> Var("Int"), ctx |-> ctx, set |-> set, heap |-> h, counter |-> c]
    ELSE IF p[1] = "Boolean"
    THEN [res |-> Ok, out |-> Var("Bool"), ctx |-> ctx, set |-> set, heap |-> h, counter |-> c]
    ELSE IF p[1] = "Identifier"
    THEN IF p[2] \in set
         THEN [res |-> BoundTwice, out |-> ErrorT, ctx |-> ctx, set |-> set,
               heap |-> h, counter |-> c]
         ELSE IF p[2] \in DOMAIN ctx.env
         THEN LET i == instantiate(h, c, ctx.env[p[2]], ctx.level)
              IN [res |-> IF i.out = Diverged THEN Overflow ELSE Ok, out |-> i.out,
                  ctx |-> ctx, set |-> set \cup {p[2]}, heap |-> i.heap, counter |-> i.counter]
         ELSE LET t == ctx_new_hole(h, c, ctx)
              IN [res |-> Ok, out |-> t.out, ctx |-> extend(ctx, p[2], to_poly(t.out)),
                  set |-> set \cup {p[2]}, heap |-> t.heap, counter |-> t.counter]
    ELSE PatternInferEach(p[2], 1, ctx, set, h, c, <<>>)

RECURSIVE TypeInfer(_, _, _, _)
RECURSIVE TypeInferEach(_, _, _, _, _, _)

\* the Tuple arm's loop of Type::infer
TypeInferEach(vec, i, ctx, h, c, res) ==
    IF i > Len(vec) THEN R(Ok, Tuple(res), h, c)
    ELSE LET r == TypeInfer(vec[i], ctx, h, c)
         IN IF r.res # Ok THEN r
            ELSE TypeInferEach(vec, i + 1, ctx, r.heap, r.counter, Append(res, r.out))

\* Type::infer(ctx); Application and Unit are todo!() and panic
TypeInfer(ty, ctx, h, c) ==
    IF ty[1] = "Arrow"
    THEN LET l == TypeInfer(ty[2], ctx, h, c)
         IN IF l.res # Ok THEN l
            ELSE LET r == TypeInfer(ty[3], ctx, l.heap, l.counter)
                 IN IF r.res # Ok THEN r ELSE R(Ok, Arrow(l.out, r.out), r.heap, r.counter)
    ELSE IF ty[1] = "Variable"
    THEN IF ty[2] \in ctx.typ_map THEN R(Ok, Var(ty[2]), h, c)
         ELSE R(UnboundType, ErrorT, h, c)
    ELSE IF ty[1] = "Tuple" THEN TypeInferEach(ty[2], 1, ctx, h, c, <<>>)
    ELSE IF ty[1] = "Forall"
    THEN LET m == TypeInfer(ty[3], extend_types(ctx, ty[2]), h, c)
         IN IF m.res # Ok THEN m
            ELSE LET i == instantiate(m.heap, m.counter, TypeScheme(ty[2], m.out), ctx.level)
                 IN R(IF i.out = Diverged THEN Overflow ELSE Ok, i.out, i.heap, i.counter)
    ELSE R(Todo, ErrorT, h, c)

RECURSIVE ExprInfer(_, _, _, _)
RECURSIVE ExprInferEach(_, _, _, _, _, _)
RECURSIVE MatchClauses(_, _, _, _, _, _, _)

\* the Tuple arm's map and collect: the first error ends it
ExprInferEach(vec, i, ctx, h, c, res) ==
    IF i > Len(vec) THEN R(Ok, Tuple(res), h, c)
    ELSE LET r == ExprInfer(vec[i], ctx, h, c)
         IN IF r.res # Ok THEN r
            ELSE ExprInferEach(vec, i + 1, ctx, r.heap, r.counter, Append(res, r.out))

\* the Match arm's loop over the clauses, each <<pat, expr>>
MatchClauses(clauses, i, ctx, pat_ty, ret_ty, h, c) ==
    IF i > Len(clauses) THEN R(Ok, ret_ty, h, c)
    ELSE LET p == PatternInfer(clauses[i][1], ctx, {}, h, c)
         IN IF p.res # Ok THEN R(p.res, ErrorT, p.heap, p.counter)
            ELSE LET u == unify(p.heap, pat_ty, p.out, MaxDepth)
                 IN IF u.res # Ok THEN R(u.res, ErrorT, u.heap, p.counter)
                    ELSE LET b == ExprInfer(clauses[i][2], p.ctx, u.heap, p.counter)
                         IN IF b.res # Ok THEN b
                            ELSE LET v == unify(b.heap, ret_ty, b.out, MaxDepth)
                                 IN IF v.res # Ok THEN R(v.res, ErrorT, v.heap, b.counter)
                                    ELSE MatchClauses(clauses, i + 1, ctx, pat_ty, ret_ty,
                                                      v.heap, b.counter)

\* Expr::infer(ctx)
ExprInfer(e, ctx, h, c) ==
    IF e[1] = "Unit" THEN R(Ok, Var("()"), h, c)
    ELSE IF e[1] = "Number" THEN R(Ok, Var("Int"), h, c)
    ELSE IF e[1] = "Boolean" THEN R(Ok, Var("Bool"), h, c)
    ELSE IF e[1] = "Tuple" THEN ExprInferEach(e[2], 1, ctx, h, c, <<>>)
    ELSE IF e[1] = "Identifier"
    THEN IF e[2] \in DOMAIN ctx.env
         THEN LET i == instantiate(h, c, ctx.env[e[2]], ctx.level)
              IN R(IF i.out = Diverged THEN Overflow ELSE Ok, i.out, i.heap, i.counter)
         ELSE R(Unbound, ErrorT, h, c)
    ELSE IF e[1] = "Application"
    THEN LET r0 == ExprInfer(e[2], ctx, h, c)
         IN IF r0.res # Ok THEN r0
            ELSE LET r1 == ExprInfer(e[3], ctx, r0.heap, r0.counter)
                 IN IF r1.res # Ok THEN r1
                    ELSE LET t_return == ctx_new_hole(r1.heap, r1.counter, ctx)
                             u == unify(t_return.heap, r0.out,
                                        Arrow(r1.out, t_return.out), MaxDepth)
                         IN R(u.res, IF u.res = Ok THEN t_return.out ELSE ErrorT,
                              u.heap, t_return.counter)
    ELSE IF e[1] = "Abstraction"
    THEN LET t == ctx_new_hole(h, c, ctx)
             r == ExprInfer(e[3], extend(ctx, e[2], to_poly(t.out)), t.heap, t.counter)
         IN IF r.res # Ok THEN r ELSE R(Ok, Arrow(t.out, r.out), r.heap, r.counter)
    ELSE IF e[1] = "Let"
    THEN LET r == ExprInfer(e[3], ctx, h, c)
         IN IF r.res # Ok THEN r
            ELSE LET g == generalize(r.heap, r.counter, r.out, ctx.level)
                 IN IF g.out.mono = Diverged THEN R(Overflow, ErrorT, r.heap, g.counter)
                    ELSE ExprInfer(e[4], extend(ctx, e[2], g.out), r.heap, g.counter)
    ELSE IF e[1] = "Match"
    THEN LET r == ExprInfer(e[2], ctx, h, c)
         IN IF r.res # Ok THEN r
            ELSE LET ret_ty == ctx_new_hole(r.heap, r.counter, ctx)
                 IN MatchClauses(e[3], 1, ctx, r.out, ret_ty.out, ret_ty.heap, ret_ty.counter)
    ELSE LET typ_res == TypeInfer(e[3], ctx, h, c)
         IN IF typ_res.res # Ok THEN typ_res
            ELSE LET expr_res == ExprInfer(e[2], ctx, typ_res.heap, typ_res.counter)
                 IN IF expr_res.res # Ok THEN expr_res
                    ELSE LET u == unify(expr_res.heap, expr_res.out, typ_res.out, MaxDepth)
                         IN R(u.res, IF u.res = Ok THEN typ_res.out ELSE ErrorT,
                              u.heap, expr_res.counter)

(***************************** syntax ***************************************)
Unit == <<"Unit">>
Number == <<"Number">>
Boolean == <<"Boolean">>
Identifier(x) == <<"Identifier", x>>
Application(e0, e1) == <<"Application", e0, e1>>
Abstraction(x, e) == <<"Abstraction", x, e>>
Let(x, e0, e1) == <<"Let", x, e0, e1>>
Match(e, clauses) == <<"Match", e, clauses>>
Annotation(expr, typ) == <<"Annotation", expr, typ>>
TArrow(l, r) == <<"Arrow", l, r>>
TVariable(v) == <<"Variable", v>>
TForall(args, body) == <<"Forall", args, body>>
TUnit == <<"Unit">>

\* \x. x
IdFn == Abstraction("x", Identifier("x"))
\* \x. x x
SelfApp == Abstraction("x", Application(Identifier("x"), Identifier("x")))
\* let id = \x. x in (id 3, id true)
LetId ==
    Let("id", IdFn, Tuple(<<Application(Identifier("id"), Number),
                            Application(Identifier("id"), Boolean)>>))
\* \f. \x. f x
Apply == Abstraction("f", Abstraction("x", Application(Identifier("f"), Identifier("x"))))
\* match (1, true) with | (a, b) => a      and the same with the pattern (a, a)
MatchPair(p) == Match(Tuple(<<Number, Boolean>>), <<<<p, Identifier("a")>>>>)

\* (\x. x : forall a. a -> a) 3
AnnotatedId ==
    Application(Annotation(IdFn, TForall(<<"a">>, TArrow(TVariable("a"), TVariable("a")))),
                Number)
TypeExprs ==
    {TVariable("Int"), TVariable("Bool"), TVariable("a"), TUnit,
     TArrow(TVariable("Int"), TVariable("Int")), Tuple(<<TVariable("Int"), TVariable("Bool")>>),
     TForall(<<"a">>, TArrow(TVariable("a"), TVariable("a"))),
     TForall(<<"a">>, TVariable("a"))}

ExprAtoms == {Number, Boolean, Unit, Identifier("x"), Identifier("id"), Identifier("add")}
ExprInner ==
    ExprAtoms \cup {Application(a, b) : a, b \in ExprAtoms}
              \cup {Tuple(<<a, b>>) : a, b \in ExprAtoms}
PatAtoms == {Unit, Number, Boolean, Identifier("a"), Identifier("b"), Identifier("add")}
Patterns ==
    PatAtoms \cup {Tuple(<<p, q>>) : p, q \in PatAtoms}
             \cup {Tuple(<<p, Tuple(<<q, r>>)>>) : p, q, r \in PatAtoms \ {Unit, Boolean}}
Exprs ==
    ExprInner \cup {Abstraction("x", e) : e \in ExprInner}
              \cup {Let("id", IdFn, e) : e \in ExprInner}
              \cup {SelfApp, LetId, Apply, AnnotatedId}
              \cup {Annotation(e, ty) : e \in {Number, Boolean, IdFn, SelfApp}, ty \in TypeExprs}
              \cup {MatchPair(p) : p \in Patterns}

(***************************** inputs ***************************************)
Holes(h) == {HoleT(i) : i \in DOMAIN h}
Leaves(h) == Holes(h) \cup {Var("Int")}
Atoms(h) == Leaves(h) \cup {Var("Bool"), ErrorT}
Types(h) ==
    Atoms(h) \cup {Arrow(x, y) : x, y \in Leaves(h)}
             \cup {Tuple(<<x>>) : x \in Leaves(h)}
             \cup {Tuple(<<x, Var("Int")>>) : x \in Holes(h)}

\* schemes given to instantiate: written by hand, as a declaration's
\* constructor scheme is, over the names x and y
Schemes(h) ==
    {TypeScheme(<<"x">>, Arrow(Var("x"), Var("x"))),
     TypeScheme(<<"x">>, Tuple(<<Var("x"), Var("Int")>>)),
     TypeScheme(<<>>, Var("Int"))}
      \cup {TypeScheme(<<"x">>, Arrow(Var("x"), a)) : a \in Holes(h)}

SubstTypes(h) ==
    Types(h) \cup {Var("x"), Arrow(Var("x"), Var("x")), Tuple(<<Var("x"), Var("Int")>>)}
Substs(h) == {("x" :> a) : a \in Atoms(h)}

NoOp == [op |-> "none", left |-> ErrorT, right |-> ErrorT, res |-> Ok, out |-> ErrorT]

\* a run goes on until a recursion stops returning or the operations are spent
Running == last.res # Overflow /\ ops < MaxOps

(***************************** actions **************************************)
Init ==
    /\ heap \in UNION {[1..n -> {RefItem(nm, lv) : nm \in HoleNames, lv \in Levels}] : n \in 1..MaxHoles}
    /\ counter = 0
    /\ last = NoOp
    /\ ops = 0

\* what `last` keeps of an operation: all of it, or its name and result alone
Kept(keep, rec) == IF keep THEN rec ELSE [NoOp EXCEPT !.op = rec.op, !.res = rec.res]

\* unify(ctx, l, r)
UnifyStep(keep) ==
    /\ \E l \in Types(heap), r \in Types(heap) :
         LET u == unify(heap, l, r, MaxDepth)
         IN /\ heap' = u.heap
            /\ last' = Kept(keep, [op |-> "unify", left |-> l, right |-> r,
                                   res |-> u.res, out |-> ErrorT])
    /\ ops' = ops + 1
    /\ UNCHANGED counter

\* scheme.instantiate(ctx), ctx at some level
InstantiateStep(keep) ==
    /\ \E scheme \in Schemes(heap), level \in Levels :
         LET r == instantiate(heap, counter, scheme, level)
         IN /\ Len(heap) + Len(scheme.names) <= MaxHoles
            /\ heap' = r.heap
            /\ counter' = r.counter
            /\ last' = Kept(keep, [op |-> "instantiate", left |-> scheme, right |-> ErrorT,
                                   res |-> IF r.out = Diverged THEN Overflow ELSE Ok,
                                   out |-> r.out])
    /\ ops' = ops + 1

\* t.generalize(ctx), ctx at some level
GeneralizeStep(keep) ==
    /\ \E t \in Types(heap), level \in Levels :
         LET r == generalize(heap, counter, t, level)
         IN /\ counter' = r.counter
            /\ last' = Kept(keep, [op |-> "generalize", left |-> t, right |-> ErrorT,
                                   res |-> IF r.out.mono = Diverged THEN Overflow ELSE Ok,
                                   out |-> r.out])
    /\ ops' = ops + 1
    /\ UNCHANGED heap

\* t.substitute(substs)
SubstituteStep(keep) ==
    /\ \E t \in SubstTypes(heap), substs \in Substs(heap) :
         LET r == substitute(heap, t, substs, MaxDepth)
         IN last' = Kept(keep, [op |-> "substitute", left |-> t, right |-> substs["x"],
                                res |-> IF r = Diverged THEN Overflow ELSE Ok, out |-> r])
    /\ ops' = ops + 1
    /\ UNCHANGED <<heap, counter>>

Unify == Running /\ UnifyStep(TRUE)
Instantiate == Running /\ InstantiateStep(TRUE)
Generalize == Running /\ GeneralizeStep(TRUE)
Substitute == Running /\ SubstituteStep(TRUE)

Next == Unify \/ Instantiate \/ Generalize \/ Substitute

Spec == Init /\ [][Next]_vars

\* one run of the suite: a fresh context, no cell allocated yet
InitInfer ==
    /\ heap = <<>>
    /\ counter = 0
    /\ last = NoOp
    /\ ops = 0

\* parsed.infer(default_context())
InferExpr ==
    /\ ops = 0
    /\ \E e \in Exprs :
         LET r == ExprInfer(e, default_context, heap, counter)
         IN /\ heap' = r.heap
            /\ counter' = r.counter
            /\ last' = [op |-> "infer", left |-> e, right |-> ErrorT, res |-> r.res, out |-> r.out]
    /\ ops' = ops + 1

\* pat.infer((ctx, &mut set)) with an empty binder set, as a match clause calls it
InferPattern ==
    /\ ops = 0
    /\ \E p \in Patterns :
         LET r == PatternInfer(p, default_context, {}, heap, counter)
         IN /\ heap' = r.heap
            /\ counter' = r.counter
            /\ last' = [op |-> "pattern", left |-> p, right |-> ErrorT, res |-> r.res,
                        out |-> [typ |-> r.out, env |-> r.ctx.env]]
    /\ ops' = ops + 1

\* instantiate(generalize(t, ctx), ctx2) on a type of the heap one unify has
\* worked on; `right` keeps ctx.level, ctx2.level and the cells there were
RoundTrip ==
    /\ last.op # "roundtrip" /\ last.res # Overflow
    /\ \E t \in Types(heap), level \in Levels, level2 \in Levels :
         LET g == generalize(heap, counter, t, level)
             i == instantiate(heap, g.counter, g.out, level2)
         IN IF g.out.mono = Diverged
            THEN /\ UNCHANGED heap
                 /\ counter' = g.counter
                 /\ last' = [op |-> "roundtrip", left |-> t, right |-> <<level, level2, Len(heap)>>,
                             res |-> Overflow, out |-> ErrorT]
            ELSE /\ heap' = i.heap
                 /\ counter' = i.counter
                 /\ last' = [op |-> "roundtrip", left |-> t, right |-> <<level, level2, Len(heap)>>,
                             res |-> IF i.out = Diverged THEN Overflow ELSE Ok, out |-> i.out]
    /\ ops' = ops + 1

\* the one unify that precedes a round trip
UnifyOnce == ops = 0 /\ UnifyStep(FALSE)

NextRound == UnifyOnce \/ RoundTrip

SpecRound == Init /\ [][NextRound]_vars

NextInfer == InferExpr \/ InferPattern

SpecInfer == InitInfer /\ [][NextInfer]_vars

(***************************** claims ***************************************)
Level(h, i) == get(h, i)[2]

\* C1: no Filled hole's payload contains that same hole, walked through
\* tuples, arrows and Filled holes, after any sequence of unify calls.
Acyclicity == Acyclic(heap)

\* C2: unifying an Empty hole h with a type that is not h but contains h
\* (under a tuple, an arrow, or behind Filled holes) fails with the cyclic-type
\* error and leaves h Empty.
OccursCheckFails ==
    [][\A i \in DOMAIN heap :
          (/\ last'.op = "unify"
           /\ is_empty(heap, i)
           /\ \/ last'.left = HoleT(i) /\ last'.right # HoleT(i) /\ i \in Reach(heap, last'.right)
              \/ last'.right = HoleT(i) /\ last'.left # HoleT(i) /\ i \in Reach(heap, last'.left))
          => last'.res = CyclicMsg /\ is_empty(heap', i)]_vars

\* C4: a hole's state changes only from Empty to Filled (a Filled hole keeps
\* its payload for ever) and the level of an Empty hole never increases.
HoleMonotonicity ==
    [][\A i \in DOMAIN heap :
          /\ i \in DOMAIN heap'
          /\ is_filled(heap, i) => heap'[i] = heap[i]
          /\ is_empty(heap, i) /\ is_empty(heap', i) => Level(heap', i) <= Level(heap, i)]_vars

\* C4 witness: the second operation is a unify of two holes of different
\* names whose left hole was Filled with Int by the first operation; the
\* unify read that payload, left it in place and the right hole holds Int.
HoleMonotonicityWitness ==
    /\ ops = 2 /\ last.op = "unify" /\ last.res = Ok
    /\ \E i, j \in DOMAIN heap :
         /\ heap[i].name # heap[j].name
         /\ last.left = HoleT(i) /\ last.right = HoleT(j)
         /\ get(heap, i) = Filled(Var("Int")) /\ get(heap, j) = Filled(Var("Int"))

\* C5: unify with Error on either side succeeds, records no diagnostic and
\* changes no hole.
ErrorAbsorbing ==
    [][(last'.op = "unify" /\ (last'.left = ErrorT \/ last'.right = ErrorT))
          => last'.res = Ok /\ heap' = heap]_vars

\* C7: when unify fills an Empty hole of level L, every Empty hole reachable
\* in what it was filled with has level at most L afterwards.
LevelAdjustment ==
    [][\A i \in DOMAIN heap :
          (last'.op = "unify" /\ is_empty(heap, i) /\ is_filled(heap', i))
          => \A j \in Below(heap', i) : is_empty(heap', j) => Level(heap', j) <= Level(heap, i)]_vars

\* C8: unify of two distinct Empty holes, whatever their display names, fills
\* the left one with the right one; unify of a hole with itself fills nothing.
HoleHoleByIdentity ==
    [][\A i, j \in DOMAIN heap :
          (/\ last'.op = "unify" /\ last'.left = HoleT(i) /\ last'.right = HoleT(j)
           /\ is_empty(heap, i) /\ is_empty(heap, j))
          => /\ last'.res = Ok
             /\ heap' = IF i = j THEN heap ELSE fill(heap, i, HoleT(j))]_vars

\* C10: after a successful unify of two types free of Error, the two are
\* structurally equal once Filled holes are replaced by their payloads.
UnifyMakesEqual ==
    (/\ last.op = "unify" /\ last.res = Ok /\ Acyclic(heap)
     /\ ~HasError(heap, last.left) /\ ~HasError(heap, last.right))
    => Resolve(heap, last.left) = Resolve(heap, last.right)
\* C3: `let id = \x. x in (id 3, id true)` infers to (Int, Bool) with no
\* error: the holes of the right-hand side are quantified in id's scheme and
\* each use of id gets fresh holes.
LetPolymorphism ==
    (last.op = "infer" /\ last.left = LetId)
    => last.res = Ok /\ Resolve(heap, last.out) = Tuple(<<Var("Int"), Var("Bool")>>)

RECURSIVE Idents(_)
RECURSIVE IdentsEach(_, _)
IdentsEach(vec, i) == IF i > Len(vec) THEN <<>> ELSE Idents(vec[i]) \o IdentsEach(vec, i + 1)
\* the identifiers of a pattern, left to right
Idents(p) ==
    IF p[1] = "Identifier" THEN <<p[2]>>
    ELSE IF p[1] = "Tuple" THEN IdentsEach(p[2], 1)
    ELSE <<>>

\* the identifiers a pattern binds: those with no binding in the ambient
\* environment
Binders(p) == {Idents(p)[k] : k \in DOMAIN Idents(p)} \ DOMAIN default_context.env
Occurrences(p, x) == Cardinality({k \in DOMAIN Idents(p) : Idents(p)[k] = x})

\* C9: pattern inference fails with 'bound more than once' exactly when an
\* identifier is bound twice in the pattern; a name of the ambient environment
\* binds nothing and does not count; every other identifier is bound to a
\* fresh hole in the returned context.
PatternLinearity ==
    last.op = "pattern"
    => /\ last.res = BoundTwice <=> \E x \in Binders(last.left) : Occurrences(last.left, x) >= 2
       /\ last.res = Ok =>
            /\ DOMAIN last.out.env = DOMAIN default_context.env \cup Binders(last.left)
            /\ \A x \in DOMAIN default_context.env : last.out.env[x] = default_context.env[x]
            /\ \A x \in Binders(last.left) :
                 /\ last.out.env[x].names = <<>>
                 /\ last.out.env[x].mono[1] = "Hole"
                 /\ is_empty(heap, last.out.env[x].mono[2])
RECURSIVE SameShape(_, _)
\* a and b agree on everything but which cell stands at each hole
SameShape(a, b) ==
    IF a[1] # b[1] THEN FALSE
    ELSE IF a[1] = "Var" THEN a[2] = b[2]
    ELSE IF a[1] = "Tuple"
    THEN Len(a[2]) = Len(b[2]) /\ \A k \in DOMAIN a[2] : SameShape(a[2][k], b[2][k])
    ELSE IF a[1] = "Arrow" THEN SameShape(a[2], b[2]) /\ SameShape(a[3], b[3])
    ELSE TRUE

RECURSIVE HolePairs(_, _)
\* for a and b of the same shape: the pairs <<cell of a, cell of b>> that
\* stand at the same position
HolePairs(a, b) ==
    IF a[1] = "Hole" THEN {<<a[2], b[2]>>}
    ELSE IF a[1] = "Tuple" THEN UNION {HolePairs(a[2][k], b[2][k]) : k \in DOMAIN a[2]}
    ELSE IF a[1] = "Arrow" THEN HolePairs(a[2], b[2]) \cup HolePairs(a[3], b[3])
    ELSE {}

\* every Empty hole met in t is younger than the generalizing context
Young(h, t, level) == \A i \in Reach(h, t) : is_empty(h, i) => Level(h, i) > level

=============================================================================
